---- MODULE Spec2Model ----
(***************************************************************************)
(* The golf bot's dialogue core (src/golf_bot.py): the per-user session    *)
(* dictionary, the shot wizard with its undo stack, the practice setup,    *)
(* the global controls and the slash commands.                             *)
(*                                                                         *)
(* Every handler is an operator from (core, input) to a record             *)
(* [core, out, ev]: the session dictionary after the handler, the          *)
(* sequence of replies it sent and a label of the branch it took.  The     *)
(* actions apply one handler to the current state.                         *)
(*                                                                         *)
(* Conventions: Python None is the string "None" (the record NoShot for    *)
(* core["current"], the number NoHole for Shot.hole); emoji glyphs are     *)
(* spelled in ASCII; reply texts with interpolated values are reduced to   *)
(* their fixed part; a keyboard is the set of its buttons.                 *)
(***************************************************************************)
EXTENDS Integers, Sequences, FiniteSets, TLC

\* ---------------------------------------------------------------- bounds
MaxShots == 1    \* confirmed shots kept per session
MaxHole  == 2    \* highest value of the hole counter
MaxMuts  == 4    \* accepted mutations counted per shot (counting runs only)
MaxStatShots == 3  \* Shots in a list handed to the statistics

\* ------------------------------------------------------------- constants
None   == "None"
NoShot == [none |-> TRUE]
NoHole == 0

ARW_UP    == "up"
ARW_DOWN  == "down"
ARW_RIGHT == "right"
ARW_LEFT  == "left"
CHECK     == "flag"
CROSS     == "cross"

BACK    == "< Back"
CANCEL  == "x Cancel"
CONFIRM == "v Confirm"
MAIN_MENU       == "Main menu"
END_SESSION_BTN == "End session"

LIES == {"tee", "fairway", "rough", "deep rough", "fringe", "green", "sand",
         "mat", "bare lie", "divot"}
CLUBS == {"Dr", "3w", "5w", "7w", "3h", "3", "4", "5", "6", "7", "8", "9",
          "GW", "PW", "SW", "LW", "54", "56", "58", "60", "Putter"}
SHOT_TYPES == {"full swing", "3/4", "half swing", "pitch shot", "bunker shot",
               "chip shot", "bump and run", "flop shot", "putt"}
RESULT_NON_PUTT == {ARW_UP, ARW_DOWN, ARW_RIGHT, ARW_LEFT, CHECK}
CONTACT_NON_PUTT == {"thin", "fat", "toe", "heel", "shank", "high on face",
                     "low on face", "good flag"}
PLAN_CHOICES == {"shot as planned flag", "not as planned cross"}
PUTT_DISTANCE == {"Long putt", "Short putt"}
RESULT_PUTT == {ARW_UP, ARW_DOWN, ARW_RIGHT, ARW_LEFT, CHECK}
CONTACT_PUTT == {"toe", "heel", "good flag"}
LAG_PUTT == {"good reading", "poor reading"}
MODES == {"practice", "on course"}

\* The text messages the user sends: one button of every keyboard (two
\* shot types, to reach both branches), every control and one free text.
Tokens ==
    {"practice", "on course", "fairway", "7", "full swing", "putt", ARW_UP,
     "thin", "toe", "shot as planned flag", "Short putt", "good reading",
     BACK, CANCEL, CONFIRM, MAIN_MENU, END_SESSION_BTN, "hello"}

\* ------------------------------------------------------------------ Shot
ShotFields ==
    {"timestamp", "mode", "session_id", "hole", "lie", "club", "shot_type",
     "result", "contact", "plan", "putt_distance", "putt_result",
     "putt_contact", "putt_plan_1", "lag_reading", "putt_plan_2"}

Shot(timestamp, mode, session_id) ==
    [timestamp |-> timestamp, mode |-> mode, session_id |-> session_id,
     hole |-> NoHole, lie |-> None, club |-> None, shot_type |-> None,
     result |-> None, contact |-> None, plan |-> None,
     putt_distance |-> None, putt_result |-> None, putt_contact |-> None,
     putt_plan_1 |-> None, lag_reading |-> None, putt_plan_2 |-> None]

as_row(s) ==
    <<s.timestamp, s.mode, s.session_id, s.hole, s.lie, s.club, s.shot_type,
      s.result, s.contact, s.plan, s.putt_distance, s.putt_result,
      s.putt_contact, s.putt_plan_1, s.lag_reading, s.putt_plan_2>>

\* ---------------------------------------------------------------- helpers
now_iso == "now"

\* The session identifiers the state still holds.
IdsInUse(core) ==
    {core.session_id}
        \cup {core.shots[i].session_id : i \in 1..Len(core.shots)}
        \cup {core.stack[i].session_id : i \in 1..Len(core.stack)}
        \cup (IF core.current = NoShot THEN {} ELSE {core.current.session_id})

\* str(uuid.uuid4()): a fresh identifier.  Identifiers are numbers; a fresh
\* one is the least number that nothing in the state holds (an identifier
\* that no object holds any more cannot be told from a new one).
uuid4(core) ==
    CHOOSE n \in 1..(Cardinality(IdsInUse(core)) + 1) :
        /\ n \notin IdsInUse(core)
        /\ \A m \in 1..(n - 1) : m \in IdsInUse(core)

ensure_session ==
    [session_id |-> 1, mode |-> None, shots |-> <<>>, current |-> NoShot,
     stack |-> <<>>, practice |-> [lie |-> None, club |-> None],
     round |-> [hole |-> 1],
     hist |-> [muts |-> 0, backs |-> 0]]

\* Mutant of start_new_shot: the sticky club is not copied.
start_new_shot_NoClub(core) ==
    LET s0 == Shot(now_iso, core.mode, core.session_id)
        s1 == IF core.mode = "oncourse"
              THEN [s0 EXCEPT !.hole = core.round.hole] ELSE s0
        s2 == IF core.mode = "practice"
              THEN [s1 EXCEPT !.lie = core.practice.lie]
              ELSE s1
    IN [core EXCEPT !.current = s2, !.stack = <<>>,
                    !.hist = [muts |-> 0, backs |-> 0]]

\* Mutant of start_new_shot: the hole is written in every mode.
start_new_shot_HoleAlways(core) ==
    LET s0 == Shot(now_iso, core.mode, core.session_id)
        s1 == [s0 EXCEPT !.hole = core.round.hole]
        s2 == IF core.mode = "practice"
              THEN [s1 EXCEPT !.lie = core.practice.lie,
                              !.club = core.practice.club]
              ELSE s1
    IN [core EXCEPT !.current = s2, !.stack = <<>>,
                    !.hist = [muts |-> 0, backs |-> 0]]

\* hist is a history record, not program state: the accepted mutations and
\* the successful backs since the in-progress Shot was created.
start_new_shot(core) ==
    LET s0 == Shot(now_iso, core.mode, core.session_id)
        s1 == IF core.mode = "oncourse"
              THEN [s0 EXCEPT !.hole = core.round.hole] ELSE s0
        s2 == IF core.mode = "practice"
              THEN [s1 EXCEPT !.lie = core.practice.lie,
                              !.club = core.practice.club]
              ELSE s1
    IN [core EXCEPT !.current = s2, !.stack = <<>>,
                    !.hist = [muts |-> 0, backs |-> 0]]

\* Mutant of push_state: the snapshot is stored twice.
push_state_Twice(core) ==
    [core EXCEPT !.stack = Append(Append(core.stack, core.current),
                                  core.current),
                 !.hist.muts = @ + 1]

push_state(core) ==
    [core EXCEPT !.stack = Append(core.stack, core.current),
                 !.hist.muts = @ + 1]

\* Mutant of pop_state: reads the last snapshot and leaves it on the stack.
pop_state_Peek(core) ==
    [core EXCEPT !.current = core.stack[Len(core.stack)],
                 !.hist.backs = @ + 1]

\* Mutant of pop_state: takes only the shot type back from the snapshot.
pop_state_TypeOnly(core) ==
    [core EXCEPT !.current.shot_type = core.stack[Len(core.stack)].shot_type,
                 !.stack = SubSeq(core.stack, 1, Len(core.stack) - 1),
                 !.hist.backs = @ + 1]

\* pop_state when the stack is not empty (the caller tests it).
pop_state(core) ==
    [core EXCEPT !.current = core.stack[Len(core.stack)],
                 !.stack = SubSeq(core.stack, 1, Len(core.stack) - 1),
                 !.hist.backs = @ + 1]

\* ------------------------------------------------------------- keyboards
Reply(text, markup) == [text |-> text, markup |-> markup]
kb(rows) == [kind |-> "keyboard", buttons |-> rows]
ReplyKeyboardRemove == [kind |-> "remove", buttons |-> {}]
NoMarkup == [kind |-> "none", buttons |-> {}]

kb_mode == kb(MODES)
kb_with_controls(rows) == kb(rows \cup {BACK, MAIN_MENU, END_SESSION_BTN})
kb_lie == kb_with_controls(LIES)
kb_club == kb_with_controls(CLUBS)
kb_type == kb_with_controls(SHOT_TYPES)
kb_result(is_putt) ==
    kb_with_controls(IF is_putt THEN RESULT_PUTT ELSE RESULT_NON_PUTT)
kb_contact(is_putt) ==
    kb_with_controls(IF is_putt THEN CONTACT_PUTT ELSE CONTACT_NON_PUTT)
kb_plan == kb_with_controls(PLAN_CHOICES)
kb_putt_distance == kb_with_controls(PUTT_DISTANCE)
kb_lag == kb_with_controls(LAG_PUTT)
kb_confirm == kb_with_controls({CONFIRM, CANCEL})

Ret(core, out, ev) == [core |-> core, out |-> out, ev |-> ev]

\* -------------------------------------------------------- global controls
\* Mutant of go_main_menu: the hole counter is not reset.
go_main_menu_KeepHole(core) ==
    Ret([core EXCEPT !.mode = None, !.shots = <<>>, !.current = NoShot,
                     !.stack = <<>>,
                     !.practice = [lie |-> None, club |-> None]],
        <<Reply("Hi! Choose mode:", kb_mode)>>, "menu")

go_main_menu(core) ==
    Ret([core EXCEPT !.mode = None, !.shots = <<>>, !.current = NoShot,
                     !.stack = <<>>,
                     !.practice = [lie |-> None, club |-> None],
                     !.round = [hole |-> 1]],
        <<Reply("Hi! Choose mode:", kb_mode)>>, "menu")

\* Mutant of end_session_action: the sticky lie and club survive.
end_session_action_KeepSticky(core) ==
    LET c == [core EXCEPT !.session_id = uuid4(core), !.shots = <<>>,
                          !.current = NoShot, !.stack = <<>>]
    IN IF c.mode = "practice"
       THEN Ret(c, <<Reply("Session ended. Practice setup: pick Lie.", kb_lie)>>,
                "end")
       ELSE IF c.mode = "oncourse"
       THEN Ret([c EXCEPT !.round = [hole |-> 1]],
                <<Reply("Session ended. On-course: Hole = 1. Use /shot.",
                        ReplyKeyboardRemove)>>, "end")
       ELSE Ret(c, <<Reply("Session ended. Use /start to choose mode.",
                           kb_mode)>>, "end")

\* Mutant of end_session_action: the confirmed Shots survive.
end_session_action_KeepShots(core) ==
    LET c == [core EXCEPT !.session_id = uuid4(core),
                          !.current = NoShot, !.stack = <<>>]
    IN IF c.mode = "practice"
       THEN Ret([c EXCEPT !.practice = [lie |-> None, club |-> None]],
                <<Reply("Session ended. Practice setup: pick Lie.", kb_lie)>>,
                "end")
       ELSE IF c.mode = "oncourse"
       THEN Ret([c EXCEPT !.round = [hole |-> 1]],
                <<Reply("Session ended. On-course: Hole = 1. Use /shot.",
                        ReplyKeyboardRemove)>>, "end")
       ELSE Ret(c, <<Reply("Session ended. Use /start to choose mode.",
                           kb_mode)>>, "end")

end_session_action(core) ==
    LET c == [core EXCEPT !.session_id = uuid4(core), !.shots = <<>>,
                          !.current = NoShot, !.stack = <<>>]
    IN IF c.mode = "practice"
       THEN Ret([c EXCEPT !.practice = [lie |-> None, club |-> None]],
                <<Reply("Session ended. Practice setup: pick Lie.", kb_lie)>>,
                "end")
       ELSE IF c.mode = "oncourse"
       THEN Ret([c EXCEPT !.round = [hole |-> 1]],
                <<Reply("Session ended. On-course: Hole = 1. Use /shot.",
                        ReplyKeyboardRemove)>>, "end")
       ELSE Ret(c, <<Reply("Session ended. Use /start to choose mode.",
                           kb_mode)>>, "end")

\* handle_controls returns True exactly for these two texts.
IsControl(text) == text \in {MAIN_MENU, END_SESSION_BTN}

handle_controls(core, text) ==
    IF text = MAIN_MENU THEN go_main_menu(core) ELSE end_session_action(core)

\* ------------------------------------------------------------------ modes
handle_mode(core, text) ==
    IF text \notin MODES
    THEN Ret(core, <<Reply("Choose mode:", kb_mode)>>, "reject")
    ELSE LET c == [core EXCEPT
                     !.mode = IF text # "on course" THEN text ELSE "oncourse",
                     !.session_id = uuid4(core), !.shots = <<>>,
                     !.current = NoShot, !.stack = <<>>]
         IN IF c.mode = "practice"
            THEN Ret([c EXCEPT !.practice = [lie |-> None, club |-> None]],
                     <<Reply("Practice selected. Pick Lie:", kb_lie)>>, "mode")
            ELSE Ret([c EXCEPT !.round = [hole |-> 1]],
                     <<Reply("On-course selected. Hole = 1. Start a shot with /shot",
                             ReplyKeyboardRemove)>>, "mode")

\* ------------------------------------------------------------- shot flow
\* Mutant of reask_step: the non-putt branch does not look at the plan.
reask_step_NoPlan(s) ==
    IF s.shot_type = None THEN Reply("Choose Type:", kb_type)
    ELSE IF s.shot_type # "putt" THEN
        IF s.lie = None THEN Reply("Lie?", kb_lie)
        ELSE IF s.club = None THEN Reply("Club?", kb_club)
        ELSE IF s.result = None THEN Reply("Result?", kb_result(FALSE))
        ELSE IF s.contact = None THEN Reply("Contact?", kb_contact(FALSE))
        ELSE Reply("Review", kb_confirm)
    ELSE
        IF s.putt_distance = None THEN Reply("Distance?", kb_putt_distance)
        ELSE IF s.lie = None THEN Reply("Lie?", kb_lie)
        ELSE IF s.club = None THEN Reply("Club?", kb_club)
        ELSE IF s.putt_result = None THEN Reply("Result?", kb_result(TRUE))
        ELSE IF s.putt_contact = None THEN Reply("Contact?", kb_contact(TRUE))
        ELSE IF s.putt_plan_1 = None THEN Reply("Plan?", kb_plan)
        ELSE IF s.lag_reading = None THEN Reply("Lag putt reading?", kb_lag)
        ELSE IF s.putt_plan_2 = None THEN Reply("Plan (after lag)?", kb_plan)
        ELSE Reply("Review", kb_confirm)

reask_step(s) ==
    IF s.shot_type = None THEN Reply("Choose Type:", kb_type)
    ELSE IF s.shot_type # "putt" THEN
        IF s.lie = None THEN Reply("Lie?", kb_lie)
        ELSE IF s.club = None THEN Reply("Club?", kb_club)
        ELSE IF s.result = None THEN Reply("Result?", kb_result(FALSE))
        ELSE IF s.contact = None THEN Reply("Contact?", kb_contact(FALSE))
        ELSE IF s.plan = None THEN Reply("Plan?", kb_plan)
        ELSE Reply("Review", kb_confirm)
    ELSE
        IF s.putt_distance = None THEN Reply("Distance?", kb_putt_distance)
        ELSE IF s.lie = None THEN Reply("Lie?", kb_lie)
        ELSE IF s.club = None THEN Reply("Club?", kb_club)
        ELSE IF s.putt_result = None THEN Reply("Result?", kb_result(TRUE))
        ELSE IF s.putt_contact = None THEN Reply("Contact?", kb_contact(TRUE))
        ELSE IF s.putt_plan_1 = None THEN Reply("Plan?", kb_plan)
        ELSE IF s.lag_reading = None THEN Reply("Lag putt reading?", kb_lag)
        ELSE IF s.putt_plan_2 = None THEN Reply("Plan (after lag)?", kb_plan)
        ELSE Reply("Review", kb_confirm)

\* Mutant of SetField: the snapshot is taken after the assignment.
SetField_PushAfter(core, field, text, reply) ==
    Ret(push_state([core EXCEPT !.current[field] = text]), <<reply>>, "set")

\* push_state(core); s.<field> = text; reply
SetField(core, field, text, reply) ==
    Ret([push_state(core) EXCEPT !.current[field] = text], <<reply>>, "set")

Reject(core, reply) == Ret(core, <<reply>>, "reject")

\* The "Progression" part of shot_flow: core.current is a Shot and text is
\* none of the buttons handled before it.
progression(core, text) ==
    LET s == core.current IN
    IF s.shot_type = None THEN
        IF text \in SHOT_TYPES THEN
            IF text = "putt"
            THEN SetField(core, "shot_type", text, Reply("Distance?", kb_putt_distance))
            ELSE IF s.lie = None
            THEN SetField(core, "shot_type", text, Reply("Lie?", kb_lie))
            ELSE IF s.club = None
            THEN SetField(core, "shot_type", text, Reply("Club?", kb_club))
            ELSE SetField(core, "shot_type", text, Reply("Result?", kb_result(FALSE)))
        ELSE Reject(core, Reply("Choose Type:", kb_type))
    ELSE IF s.shot_type # "putt" THEN
        IF s.lie = None THEN
            IF text \in LIES
            THEN SetField(core, "lie", text, Reply("Club?", kb_club))
            ELSE Reject(core, Reply("Lie?", kb_lie))
        ELSE IF s.club = None THEN
            IF text \in CLUBS
            THEN SetField(core, "club", text, Reply("Result?", kb_result(FALSE)))
            ELSE Reject(core, Reply("Club?", kb_club))
        ELSE IF s.result = None THEN
            IF text \in RESULT_NON_PUTT
            THEN SetField(core, "result", text, Reply("Contact?", kb_contact(FALSE)))
            ELSE Reject(core, Reply("Result?", kb_result(FALSE)))
        ELSE IF s.contact = None THEN
            IF text \in CONTACT_NON_PUTT
            THEN SetField(core, "contact", text, Reply("Plan?", kb_plan))
            ELSE Reject(core, Reply("Contact?", kb_contact(FALSE)))
        ELSE IF s.plan = None THEN
            IF text \in PLAN_CHOICES
            THEN SetField(core, "plan", text, Reply("Review", kb_confirm))
            ELSE Reject(core, Reply("Plan?", kb_plan))
        ELSE Ret(core, <<>>, "silent")
    ELSE
        IF s.putt_distance = None THEN
            IF text \in PUTT_DISTANCE THEN
                IF s.lie = None
                THEN SetField(core, "putt_distance", text, Reply("Lie?", kb_lie))
                ELSE IF s.club = None
                THEN SetField(core, "putt_distance", text, Reply("Club?", kb_club))
                ELSE SetField(core, "putt_distance", text, Reply("Result?", kb_result(TRUE)))
            ELSE Reject(core, Reply("Distance?", kb_putt_distance))
        ELSE IF s.lie = None THEN
            IF text \in LIES
            THEN SetField(core, "lie", text, Reply("Club?", kb_club))
            ELSE Reject(core, Reply("Lie?", kb_lie))
        ELSE IF s.club = None THEN
            IF text \in CLUBS
            THEN SetField(core, "club", text, Reply("Result?", kb_result(TRUE)))
            ELSE Reject(core, Reply("Club?", kb_club))
        ELSE IF s.putt_result = None THEN
            IF text \in RESULT_PUTT
            THEN SetField(core, "putt_result", text, Reply("Contact?", kb_contact(TRUE)))
            ELSE Reject(core, Reply("Result?", kb_result(TRUE)))
        ELSE IF s.putt_contact = None THEN
            IF text \in CONTACT_PUTT
            THEN SetField(core, "putt_contact", text, Reply("Plan?", kb_plan))
            ELSE Reject(core, Reply("Contact?", kb_contact(TRUE)))
        ELSE IF s.putt_plan_1 = None THEN
            IF text \in PLAN_CHOICES
            THEN SetField(core, "putt_plan_1", text, Reply("Lag putt reading?", kb_lag))
            ELSE Reject(core, Reply("Plan?", kb_plan))
        ELSE IF s.lag_reading = None THEN
            IF text \in LAG_PUTT
            THEN SetField(core, "lag_reading", text, Reply("Plan (after lag)?", kb_plan))
            ELSE Reject(core, Reply("Lag putt reading?", kb_lag))
        ELSE IF s.putt_plan_2 = None THEN
            IF text \in PLAN_CHOICES
            THEN SetField(core, "putt_plan_2", text, Reply("Review", kb_confirm))
            ELSE Reject(core, Reply("Plan (after lag)?", kb_plan))
        ELSE Ret(core, <<>>, "silent")

\* The BACK branch of shot_flow.
back(core) ==
    IF core.stack # <<>>
    THEN LET c == pop_state(core)
         IN Ret(c, <<reask_step(c.current)>>, "undo")
    ELSE Ret(core, <<Reply("Nothing to go back to.", NoMarkup)>>, "noundo")

\* Mutant of cancel: the Undo Log is kept.
cancel_KeepStack(core) ==
    LET c == [core EXCEPT !.current = NoShot]
    IN IF c.mode = "practice"
       THEN Ret(c, <<Reply("Shot canceled. New shot: choose Type", kb_type)>>,
                "cancel")
       ELSE Ret(c, <<Reply("Shot canceled. Start new with /shot",
                           ReplyKeyboardRemove)>>, "cancel")

\* The CANCEL branch of shot_flow.
cancel(core) ==
    LET c == [core EXCEPT !.current = NoShot, !.stack = <<>>]
    IN IF c.mode = "practice"
       THEN Ret(c, <<Reply("Shot canceled. New shot: choose Type", kb_type)>>,
                "cancel")
       ELSE Ret(c, <<Reply("Shot canceled. Start new with /shot",
                           ReplyKeyboardRemove)>>, "cancel")

\* Mutant of confirm: no new Shot is started in practice mode.
confirm_NoNewShot(core) ==
    LET c == [core EXCEPT !.shots = Append(core.shots, core.current),
                          !.current = NoShot, !.stack = <<>>]
    IN IF c.mode = "practice"
       THEN Ret(c, <<Reply("Saved. New shot: choose Type", kb_type)>>, "confirm")
       ELSE Ret(c, <<Reply("Saved. Add next: /shot", ReplyKeyboardRemove)>>,
                "confirm")

\* Mutant of confirm: the Shot is put at the head of the list.
confirm_Prepend(core) ==
    LET c == [core EXCEPT !.shots = <<core.current>> \o core.shots,
                          !.current = NoShot, !.stack = <<>>]
    IN IF c.mode = "practice"
       THEN Ret(start_new_shot(c),
                <<Reply("Saved. New shot: choose Type", kb_type)>>, "confirm")
       ELSE Ret(c, <<Reply("Saved. Add next: /shot", ReplyKeyboardRemove)>>,
                "confirm")

\* The CONFIRM branch of shot_flow.
confirm(core) ==
    LET c == [core EXCEPT !.shots = Append(core.shots, core.current),
                          !.current = NoShot, !.stack = <<>>]
    IN IF c.mode = "practice"
       THEN Ret(start_new_shot(c),
                <<Reply("Saved. New shot: choose Type", kb_type)>>, "confirm")
       ELSE Ret(c, <<Reply("Saved. Add next: /shot", ReplyKeyboardRemove)>>,
                "confirm")

\* shot_flow once core.current is a Shot.
shot_steps(core, text) ==
    IF IsControl(text) THEN handle_controls(core, text)
    ELSE IF text = BACK THEN back(core)
    ELSE IF text = CANCEL THEN cancel(core)
    ELSE IF text = CONFIRM THEN confirm(core)
    ELSE progression(core, text)

shot_flow(core, text) ==
    IF core.current = NoShot THEN
        IF core.mode = "practice" THEN
            IF core.practice.lie # None /\ core.practice.club # None
            THEN shot_steps(start_new_shot(core), text)
            ELSE Ret(core, <<>>, "silent")
        ELSE IF core.mode = "oncourse"
        THEN Ret(core, <<Reply("Start a shot with /shot", NoMarkup)>>, "idle")
        ELSE Ret(core, <<Reply("Use /start to choose mode.", NoMarkup)>>, "idle")
    ELSE shot_steps(core, text)

\* --------------------------------------------------------- practice setup
handle_practice_setup(core, text) ==
    IF core.mode # "practice" THEN Ret(core, <<>>, "silent")
    ELSE IF IsControl(text) THEN handle_controls(core, text)
    ELSE IF core.practice.lie = None THEN
        IF text = BACK
        THEN Ret(core, <<Reply("Choose mode:", kb_mode)>>, "setup_back")
        ELSE IF text \in LIES
        THEN Ret([core EXCEPT !.practice.lie = text],
                 <<Reply("Lie set. Now pick Club:", kb_club)>>, "sticky")
        ELSE Reject(core, Reply("Pick Lie:", kb_lie))
    ELSE IF core.practice.club = None THEN
        IF text = BACK
        THEN Ret([core EXCEPT !.practice.lie = None],
                 <<Reply("Pick Lie:", kb_lie)>>, "setup_back")
        ELSE IF text \in CLUBS
        THEN Ret(start_new_shot([core EXCEPT !.practice.club = text]),
                 <<Reply("Sticky set. Start a shot: choose Type", kb_type)>>,
                 "sticky")
        ELSE Reject(core, Reply("Pick Club:", kb_club))
    ELSE shot_flow(core, text)

\* ----------------------------------------------------------------- router
any_text(core, text) ==
    IF IsControl(text) THEN handle_controls(core, text)
    ELSE IF core.mode = None THEN handle_mode(core, text)
    ELSE IF core.mode = "practice" THEN
        IF core.practice.lie = None \/ core.practice.club = None
        THEN handle_practice_setup(core, text)
        ELSE shot_flow(core, text)
    ELSE IF core.mode = "oncourse" THEN shot_flow(core, text)
    ELSE Ret(core, <<Reply("Use /start to choose mode.", NoMarkup)>>, "idle")

\* --------------------------------------------------------------- commands
cmd_help(core) == Ret(core, <<Reply("commands", NoMarkup)>>, "help")

cmd_start(core) == Ret(core, <<Reply("Hi! Choose mode:", kb_mode)>>, "start")

\* Mutant of cmd_shot: the mode is not looked at.
cmd_shot_AnyMode(core) ==
    Ret(start_new_shot(core), <<Reply("Hole: choose Type", kb_type)>>, "shot")

cmd_shot(core) ==
    IF core.mode # "oncourse"
    THEN Ret(core, <<Reply("You are not in on-course mode. Use /start.",
                           NoMarkup)>>, "refused")
    ELSE Ret(start_new_shot(core), <<Reply("Hole: choose Type", kb_type)>>,
             "shot")

\* Mutant of cmd_next_hole: the Shot in progress moves to the new hole.
cmd_next_hole_Touch(core) ==
    IF core.mode # "oncourse"
    THEN Ret(core, <<Reply("You are not in on-course mode.", NoMarkup)>>,
             "refused")
    ELSE Ret([core EXCEPT !.round.hole = @ + 1,
                          !.current = IF @ = NoShot THEN @
                                      ELSE [@ EXCEPT !.hole = core.round.hole + 1]],
             <<Reply("Moved to hole. Add a shot: /shot", NoMarkup)>>,
             "next_hole")

cmd_next_hole(core) ==
    IF core.mode # "oncourse"
    THEN Ret(core, <<Reply("You are not in on-course mode.", NoMarkup)>>,
             "refused")
    ELSE Ret([core EXCEPT !.round.hole = @ + 1],
             <<Reply("Moved to hole. Add a shot: /shot", NoMarkup)>>,
             "next_hole")

cmd_end_session(core) == end_session_action(core)

\* ------------------------------------------------------------- statistics
\* Percentages are kept in tenths of a percent: 1000 is 100.0. round(x, 1)
\* rounds to the nearest tenth, a tie to the even one.
pct(a, b) ==
    IF b = 0 THEN 0
    ELSE LET q == (a * 1000) \div b
             r == (a * 1000) % b
         IN IF 2 * r < b THEN q
            ELSE IF 2 * r > b THEN q + 1
            ELSE IF q % 2 = 0 THEN q ELSE q + 1

club_name(c) == IF c = None THEN "-" ELSE c

\* The key lists, in the order of the columns.
result_keys == <<ARW_UP, ARW_DOWN, ARW_RIGHT, ARW_LEFT, CHECK>>
contact_keys ==
    <<"thin", "fat", "toe", "heel", "shank", "high on face", "low on face",
      "good flag">>
plan_keys == <<"shot as planned flag", "not as planned cross">>
lag_keys == <<"good reading", "poor reading">>

\* The keys of by_club, in the order of their first Shot.
RECURSIVE by_club_keys(_)
by_club_keys(shots) ==
    IF shots = <<>> THEN <<>>
    ELSE LET n == Len(shots)
             before == by_club_keys(SubSeq(shots, 1, n - 1))
             club == club_name(shots[n].club)
         IN IF \E i \in 1..Len(before) : before[i] = club
            THEN before ELSE Append(before, club)

\* by_club[club]: the Shots of the club, in list order.
by_club(shots, club) ==
    LET OfClub(s) == club_name(s.club) = club
    IN SelectSeq(shots, OfClub)

Opt(v) == IF v = None THEN <<>> ELSE <<v>>

\* Mutant of observations: the lag reading of a putt is taken twice.
observations_LagTwice(s) ==
    IF s.shot_type = "putt"
    THEN [res |-> Opt(s.putt_result), con |-> Opt(s.putt_contact),
          plan |-> Opt(s.putt_plan_1) \o Opt(s.putt_plan_2),
          lag |-> Opt(s.lag_reading) \o Opt(s.lag_reading)]
    ELSE [res |-> Opt(s.result), con |-> Opt(s.contact),
          plan |-> Opt(s.plan), lag |-> <<>>]

\* What one Shot appends to the lists res, con, plan and lag.
observations(s) ==
    IF s.shot_type = "putt"
    THEN [res |-> Opt(s.putt_result), con |-> Opt(s.putt_contact),
          plan |-> Opt(s.putt_plan_1) \o Opt(s.putt_plan_2),
          lag |-> Opt(s.lag_reading)]
    ELSE [res |-> Opt(s.result), con |-> Opt(s.contact),
          plan |-> Opt(s.plan), lag |-> <<>>]

\* The lists res, con, plan and lag after the loop over the Shots of a club.
RECURSIVE collect(_)
collect(lst) ==
    IF lst = <<>> THEN [res |-> <<>>, con |-> <<>>, plan |-> <<>>, lag |-> <<>>]
    ELSE LET n == Len(lst)
             acc == collect(SubSeq(lst, 1, n - 1))
             o == observations(lst[n])
         IN [res |-> acc.res \o o.res, con |-> acc.con \o o.con,
             plan |-> acc.plan \o o.plan, lag |-> acc.lag \o o.lag]

\* Mutant of Counter: a key is counted once however often it occurs.
Counter_Once(list, k) ==
    IF \E i \in 1..Len(list) : list[i] = k THEN 1 ELSE 0

\* Counter(list).get(k, 0)
Counter(list, k) == Cardinality({i \in 1..Len(list) : list[i] = k})

\* The percentages of one category, in the order of its keys.
pcts(list, keys, N) == [i \in 1..Len(keys) |-> pct(Counter(list, keys[i]), N)]

stats_header ==
    <<"Club", "n">>
        \o [i \in 1..Len(result_keys) |-> <<"Result %", result_keys[i]>>]
        \o [i \in 1..Len(contact_keys) |-> <<"Contact %", contact_keys[i]>>]
        \o [i \in 1..Len(plan_keys) |-> <<"Plan %", plan_keys[i]>>]
        \o [i \in 1..Len(lag_keys) |-> <<"Lag %", lag_keys[i]>>]

stats_row(club, lst) ==
    LET N == Len(lst)
        c == collect(lst)
    IN <<club, N>> \o pcts(c.res, result_keys, N)
                   \o pcts(c.con, contact_keys, N)
                   \o pcts(c.plan, plan_keys, N)
                   \o pcts(c.lag, lag_keys, N)

compute_stats_by_club(shots) ==
    LET clubs == by_club_keys(shots)
    IN <<stats_header>>
           \o [i \in 1..Len(clubs) |->
                 stats_row(clubs[i], by_club(shots, clubs[i]))]

RAW_HEADER ==
    <<"timestamp", "mode", "session_id", "hole", "lie", "club", "shot_type",
      "result", "contact", "plan", "putt_distance", "putt_result",
      "putt_contact", "putt_plan_1", "lag_reading", "putt_plan_2">>

raw_csv(shots) == <<RAW_HEADER>> \o [i \in 1..Len(shots) |-> as_row(shots[i])]

\* A reply_document: the file's name and its rows.
Document(name, rows) == [text |-> name, markup |-> NoMarkup, rows |-> rows]

\* Replies of cmd_stats: a text and the two CSV documents.
cmd_stats(core) ==
    IF core.shots = <<>>
    THEN Ret(core, <<Reply("No shots yet in this session.", NoMarkup)>>,
             "no_stats")
    ELSE Ret(core,
             <<Reply("Sending two CSVs for Google Sheets:", NoMarkup),
               Document("stats_by_club.csv", compute_stats_by_club(core.shots)),
               Document("raw_shots.csv", raw_csv(core.shots))>>, "stats")

\* ------------------------------------------------------------------ state
VARIABLES
    core,       \* context.user_data["core"], with the history record hist
    counting    \* whether hist is kept in this run

vars == <<core, counting>>

NoHist == [muts |-> 0, backs |-> 0]

\* hist is kept only in counting runs and only while a Shot is in progress.
Norm(c) ==
    IF counting /\ c.current # NoShot THEN c ELSE [c EXCEPT !.hist = NoHist]

Within(c) ==
    /\ Len(c.shots) <= MaxShots
    /\ c.round.hole <= MaxHole
    /\ counting => c.hist.muts <= MaxMuts

\* One update handled to completion: the handler's result becomes the state.
Do(r) ==
    /\ Within(r.core)
    /\ core' = Norm(r.core)
    /\ UNCHANGED counting

Init ==
    /\ core = ensure_session
    /\ counting = FALSE

InitCount ==
    /\ core = ensure_session
    /\ counting = TRUE

AnyText == \E text \in Tokens : Do(any_text(core, text))
CmdHelp == Do(cmd_help(core))
CmdStart == Do(cmd_start(core))
CmdShot == Do(cmd_shot(core))
CmdNextHole == Do(cmd_next_hole(core))
CmdStats == Do(cmd_stats(core))
CmdEndSession == Do(cmd_end_session(core))

Next ==
    \/ AnyText
    \/ CmdHelp
    \/ CmdStart
    \/ CmdShot
    \/ CmdNextHole
    \/ CmdStats
    \/ CmdEndSession

Spec == Init /\ [][Next]_vars
SpecCount == InitCount /\ [][Next]_vars

\* ------------------------------------------------- statistics on any list
\* An on-course session as the mode selection leaves it, and its first Shot.
StatSession == handle_mode(ensure_session, "on course").core
StatShot == start_new_shot(StatSession).current

NonPuttShot(club, result, contact, plan) ==
    [StatShot EXCEPT !.shot_type = "full swing", !.lie = "fairway",
                     !.club = club, !.result = result, !.contact = contact,
                     !.plan = plan]

PuttShot(club, result, contact, plan_1, lag, plan_2) ==
    [StatShot EXCEPT !.shot_type = "putt", !.putt_distance = "Short putt",
                     !.lie = "green", !.club = club, !.putt_result = result,
                     !.putt_contact = contact, !.putt_plan_1 = plan_1,
                     !.lag_reading = lag, !.putt_plan_2 = plan_2]

\* Shots a session can confirm: complete ones of both branches, and ones
\* confirmed before their last fields were given.
StatShots ==
    {NonPuttShot("7", ARW_UP, "thin", "shot as planned flag"),
     NonPuttShot("7", CHECK, "toe", "not as planned cross"),
     NonPuttShot("7", ARW_DOWN, "good flag", "shot as planned flag"),
     NonPuttShot("7", None, None, None),
     PuttShot("Putter", CHECK, "good flag", "shot as planned flag",
              "good reading", "shot as planned flag"),
     PuttShot("Putter", ARW_UP, "toe", "shot as planned flag",
              "poor reading", "not as planned cross"),
     PuttShot("7", CHECK, "heel", "not as planned cross", None, None),
     [StatShot EXCEPT !.shot_type = "chip shot"]}

StatLists == UNION {[1..n -> StatShots] : n \in 0..MaxStatShots}

InitStats ==
    /\ core \in {[StatSession EXCEPT !.shots = l] : l \in StatLists}
    /\ counting = FALSE

\* The statistics command on a session with a list of any length.
StatsOfList ==
    /\ core' = Norm(cmd_stats(core).core)
    /\ UNCHANGED counting

NextStats == StatsOfList

SpecStats == InitStats /\ [][NextStats]_vars

\* ================================================================= claims
ControlTokens == {BACK, CANCEL, CONFIRM, MAIN_MENU, END_SESSION_BTN}

NonPuttGroup == {"result", "contact", "plan"}
PuttGroup ==
    {"putt_distance", "putt_result", "putt_contact", "putt_plan_1",
     "lag_reading", "putt_plan_2"}

\* The fields the dialogue asks for.
AskedFields == {"shot_type", "lie", "club"} \cup NonPuttGroup \cup PuttGroup

\* The fields a Shot's branch requires before Review.
Required(s) ==
    IF s.shot_type = "putt"
    THEN {"shot_type", "lie", "club"} \cup PuttGroup
    ELSE {"shot_type", "lie", "club"} \cup NonPuttGroup

InReview(s) == \A f \in Required(s) : s[f] # None

HasShot == core.current # NoShot

\* C1: every Shot in the confirmed list has all fields of its branch set
\* (a confirm is accepted only in Review).
C1_ConfirmedShotsComplete ==
    \A i \in 1..Len(core.shots) : InReview(core.shots[i])

\* C2: with a Shot in progress, an accepted token sets exactly one field that
\* was unset, and a back sent right after it restores the Shot and the Undo
\* Log to what they were before the token.
C2_UndoInvertsMutation ==
    HasShot =>
        \A text \in Tokens :
            LET r == any_text(core, text)
                b == any_text(r.core, BACK)
            IN r.ev = "set" =>
                /\ \E f \in AskedFields :
                      /\ core.current[f] = None
                      /\ r.core.current = [core.current EXCEPT ![f] = text]
                /\ r.core.stack = Append(core.stack, core.current)
                /\ b.ev = "undo"
                /\ b.core.current = core.current
                /\ b.core.stack = core.stack

\* A Shot in progress that has taken a mutation and can take another one.
C2_Witness ==
    /\ HasShot
    /\ core.stack # <<>>
    /\ \E text \in Tokens : any_text(core, text).ev = "set"

\* C3 as stated: with a Shot in progress, the Undo Log is as long as the
\* number of accepted mutations since the Shot was created.
C3_LogLengthIsMutations ==
    HasShot => Len(core.stack) = core.hist.muts

\* C3 amended: with a Shot in progress, the Undo Log is as long as the number
\* of accepted mutations minus the number of successful backs since the Shot
\* was created.
C3_LogLengthIsMutationsMinusBacks ==
    HasShot => Len(core.stack) = core.hist.muts - core.hist.backs

\* A Shot that was mutated, undone and mutated again.
C3_Witness ==
    /\ HasShot
    /\ core.hist.backs >= 1
    /\ Len(core.stack) >= 2

\* The documented order of the fields of each branch.
NonPuttOrder == <<"shot_type", "lie", "club", "result", "contact", "plan">>
PuttOrder ==
    <<"shot_type", "putt_distance", "lie", "club", "putt_result",
      "putt_contact", "putt_plan_1", "lag_reading", "putt_plan_2">>

BranchOrder(s) == IF s.shot_type = "putt" THEN PuttOrder ELSE NonPuttOrder

\* The Choice Catalog set of a field.
CatalogOf(f) ==
    CASE f = "shot_type" -> SHOT_TYPES
      [] f = "lie" -> LIES
      [] f = "club" -> CLUBS
      [] f = "result" -> RESULT_NON_PUTT
      [] f = "contact" -> CONTACT_NON_PUTT
      [] f = "plan" -> PLAN_CHOICES
      [] f = "putt_distance" -> PUTT_DISTANCE
      [] f = "putt_result" -> RESULT_PUTT
      [] f = "putt_contact" -> CONTACT_PUTT
      [] f = "putt_plan_1" -> PLAN_CHOICES
      [] f = "lag_reading" -> LAG_PUTT
      [] f = "putt_plan_2" -> PLAN_CHOICES

\* The Choice Catalog set of the step a Shot is at: that of the first unset
\* field of its branch, and no set at all in Review.
ShotStepCatalog(s) ==
    LET ord == BranchOrder(s)
        unset == {i \in 1..Len(ord) : s[ord[i]] = None}
    IN IF unset = {} THEN {}
       ELSE CatalogOf(ord[CHOOSE i \in unset : \A j \in unset : i <= j])

\* The Choice Catalog set of the step a session is at (none while an
\* on-course session waits for a new-shot request).
StepCatalog(c) ==
    IF c.mode = None THEN MODES
    ELSE IF c.mode = "practice" /\ c.practice.lie = None THEN LIES
    ELSE IF c.mode = "practice" /\ c.practice.club = None THEN CLUBS
    ELSE IF c.current = NoShot
    THEN (IF c.mode = "practice" THEN SHOT_TYPES ELSE {})
    ELSE ShotStepCatalog(c.current)

\* A reply that offers a keyboard offers the set of the step, plus controls.
OffersStep(reply, c) ==
    reply.markup.kind = "keyboard" =>
        reply.markup.buttons \ ControlTokens = StepCatalog(c)

\* C4: a text that is neither a control token nor in the set of the current
\* step changes nothing and is answered by one reply, the prompt of the same
\* step.
C4_RejectionIsIdempotent ==
    \A text \in Tokens \ (ControlTokens \cup StepCatalog(core)) :
        LET r == any_text(core, text)
        IN /\ r.core = core
           /\ Len(r.out) = 1
           /\ OffersStep(r.out[1], core)

\* C5: the start-on-course-shot command leaves an on-course Shot in progress
\* and its Undo Log as they are.
C5_NewShotKeepsProgress ==
    (core.mode = "oncourse" /\ HasShot) =>
        LET r == cmd_shot(core)
        IN r.core.current = core.current /\ r.core.stack = core.stack

RECURSIVE Backs(_, _)
\* The session after k back tokens in a row.
Backs(c, k) == IF k = 0 THEN c ELSE Backs(any_text(c, BACK).core, k - 1)

\* C6: with an empty Undo Log (practice setup included) a back changes
\* nothing and reports "nothing to undo"; as many backs as the Undo Log is
\* long restore the Shot as created, and one more reports "nothing to undo".
C6_BackOnEmptyLog ==
    /\ ((core.mode = "practice" \/ HasShot) /\ core.stack = <<>>) =>
          LET r == any_text(core, BACK)
          IN r.core = core /\ r.ev = "noundo"
    /\ HasShot =>
          LET u == Backs(core, Len(core.stack))
          IN /\ u.current # NoShot
             /\ u.stack = <<>>
             /\ \A f \in {"shot_type"} \cup NonPuttGroup \cup PuttGroup :
                   u.current[f] = None
             /\ any_text(u, BACK).ev = "noundo"

\* C7: every text input is answered by exactly one reply.
C7_ExactlyOneReply ==
    \A text \in Tokens : Len(any_text(core, text).out) = 1

\* C8: every keyboard offered after an input is the set of the step the
\* session is at afterwards, plus control tokens.
C8_OffersCurrentStep ==
    /\ \A text \in Tokens :
          LET r == any_text(core, text)
          IN \A i \in 1..Len(r.out) : OffersStep(r.out[i], r.core)
    /\ LET r == cmd_start(core)
       IN \A i \in 1..Len(r.out) : OffersStep(r.out[i], r.core)

IsReview(reply) == reply.text = "Review"

\* C9: whatever the input, a Review prompt is sent only for a Shot in
\* progress that has every field of its branch set.
C9_ReviewOnlyWhenComplete ==
    \A text \in Tokens :
        LET r == any_text(core, text)
        IN (\E i \in 1..Len(r.out) : IsReview(r.out[i])) =>
              r.core.current # NoShot /\ InReview(r.core.current)

\* A putt whose last field is asked: the next accepted text sends Review.
C9_Witness ==
    /\ HasShot
    /\ core.current.shot_type = "putt"
    /\ core.current.hole # NoHole
    /\ \E text \in Tokens :
          LET r == any_text(core, text)
          IN r.ev = "set" /\ IsReview(r.out[1])

\* Not both field groups of a Shot are populated, and the populated one is
\* that of the Shot's type.
GroupsExclusive(s) ==
    /\ s.shot_type = "putt" => \A f \in NonPuttGroup : s[f] = None
    /\ s.shot_type # "putt" => \A f \in PuttGroup : s[f] = None
    /\ s.shot_type = None => \A f \in NonPuttGroup \cup PuttGroup : s[f] = None

\* C10: the Shot in progress and every confirmed Shot have at most the field
\* group of their type populated; the raw row of a confirmed putt has its
\* non-putt columns (8 to 10) empty.
C10_FieldGroupsExclusive ==
    /\ HasShot => GroupsExclusive(core.current)
    /\ \A i \in 1..Len(core.shots) :
          /\ GroupsExclusive(core.shots[i])
          /\ core.shots[i].shot_type = "putt" =>
                \A k \in 8..10 : as_row(core.shots[i])[k] = None

\* A confirmed putt with its putt fields set, and a non-putt Shot in progress
\* with a non-putt field set.
C10_Witness ==
    /\ Len(core.shots) = 1
    /\ core.shots[1].shot_type = "putt"
    /\ core.shots[1].putt_plan_2 # None
    /\ HasShot
    /\ core.current.shot_type \notin {None, "putt"}
    /\ core.current.result # None

NoSticky == [lie |-> None, club |-> None]

\* C11: an end-session, sent as a button or as a command, gives the session
\* another identifier, empties the confirmed list, drops the Shot in progress
\* and the Undo Log and keeps the mode; in practice mode it also clears the
\* sticky lie and club, so that Lie is prompted for and accepted next.
C11_EndSessionResets ==
    \A r \in {any_text(core, END_SESSION_BTN), cmd_end_session(core)} :
        /\ r.core.session_id # core.session_id
        /\ r.core.shots = <<>>
        /\ r.core.current = NoShot
        /\ r.core.stack = <<>>
        /\ r.core.mode = core.mode
        /\ core.mode = "practice" =>
              /\ r.core.practice = NoSticky
              /\ Len(r.out) = 1
              /\ r.out[1].markup.kind = "keyboard"
              /\ r.out[1].markup.buttons \ ControlTokens = LIES
              /\ any_text(r.core, "full swing").core = r.core
              /\ LET n == any_text(r.core, "fairway").core
                 IN n.practice.lie = "fairway" /\ n.current = NoShot

\* A practice session with a confirmed Shot and a Shot in progress that has
\* taken a field.
C11_Witness ==
    /\ core.mode = "practice"
    /\ Len(core.shots) = 1
    /\ HasShot
    /\ core.stack # <<>>

\* C12: the main-menu button, at whatever step, leaves no mode, no confirmed
\* Shot, no Shot in progress, an empty Undo Log, no sticky values and hole 1,
\* and the next text is read as a mode choice.
C12_MainMenuResets ==
    LET r == any_text(core, MAIN_MENU)
    IN /\ r.core.mode = None
       /\ r.core.shots = <<>>
       /\ r.core.current = NoShot
       /\ r.core.stack = <<>>
       /\ r.core.practice = NoSticky
       /\ r.core.round.hole = 1
       /\ any_text(r.core, "practice").core.mode = "practice"
       /\ any_text(r.core, "on course").core.mode = "oncourse"
       /\ any_text(r.core, "fairway").core = r.core

\* An on-course session on hole 2 with a confirmed Shot and a Shot in Review.
C12_Witness ==
    /\ core.mode = "oncourse"
    /\ core.round.hole = 2
    /\ Len(core.shots) = 1
    /\ HasShot
    /\ InReview(core.current)

\* C13: every step that changes the mode (a mode choice, a main-menu reset)
\* and every end-session leaves the session with another identifier.
C13_IdentifierRegenerated ==
    [][(\/ core'.mode # core.mode
        \/ core' = Norm(end_session_action(core).core))
          => core'.session_id # core.session_id]_vars

Preset == {"lie", "club"}
NotPreset(f) == f \notin Preset

\* The fields a Shot is asked for, in order: those of its branch, without
\* lie and club for a practice Shot.
AskedOrder(s) ==
    IF s.mode = "practice"
    THEN SelectSeq(BranchOrder(s), NotPreset)
    ELSE BranchOrder(s)

\* The set fields of a Shot are a prefix of its asking order; a practice
\* Shot has its lie and club besides; no field of the other branch is set.
SetFieldsArePrefix(s) ==
    LET ord == AskedOrder(s)
        branch == {BranchOrder(s)[i] : i \in 1..Len(BranchOrder(s))}
    IN /\ \A i \in 1..(Len(ord) - 1) :
             s[ord[i + 1]] # None => s[ord[i]] # None
       /\ \A f \in AskedFields \ branch : s[f] = None
       /\ s.mode = "practice" => (s.lie # None /\ s.club # None)

\* The branch order in one state, and in the prompts its inputs get.
FieldsFollowOrder ==
    /\ HasShot => SetFieldsArePrefix(core.current)
    /\ \A i \in 1..Len(core.shots) : SetFieldsArePrefix(core.shots[i])
    /\ core.mode = "oncourse" =>
          LET n == cmd_shot(core).core.current
          IN n.lie = None /\ n.club = None /\ n.shot_type = None
    /\ \A text \in Tokens :
          LET r == any_text(core, text)
          IN r.ev \in {"set", "undo"} =>
                /\ Len(r.out) = 1
                /\ r.out[1].markup.kind = "keyboard"
                /\ r.out[1].markup.buttons \ ControlTokens
                      = ShotStepCatalog(r.core.current)

\* C14: the set fields of the Shot in progress (and of every confirmed Shot)
\* form a prefix of the documented order of its branch, lie and club being
\* preset in practice mode and unset at creation in on-course mode; after an
\* accepted field or a back the prompt offers the set of the first unset
\* field of that order.
C14_FieldsInBranchOrder == []FieldsFollowOrder

\* An on-course putt with distance, lie and club set and nothing after them.
C14_Witness ==
    /\ HasShot
    /\ core.current.mode = "oncourse"
    /\ core.current.shot_type = "putt"
    /\ core.current.club # None
    /\ core.current.putt_result = None
    /\ Len(core.shots) = 1
    /\ core.shots[1].mode = "oncourse"
    /\ core.shots[1].shot_type \notin {None, "putt"}
    /\ core.shots[1].club # None

\* What holds after an accepted confirm, whatever texts are said to change
\* no state of a waiting on-course session.
AfterConfirm(inert) ==
    LET r == any_text(core, CONFIRM)
    IN r.ev = "confirm" =>
          /\ core.mode = "practice" =>
                /\ r.core.current # NoShot
                /\ r.core.current.lie = r.core.practice.lie
                /\ r.core.current.club = r.core.practice.club
                /\ \A f \in AskedFields \ Preset : r.core.current[f] = None
                /\ r.core.stack = <<>>
          /\ core.mode = "oncourse" =>
                /\ r.core.current = NoShot
                /\ \A text \in inert : any_text(r.core, text).core = r.core
                /\ cmd_shot(r.core).core.current # NoShot

\* C15 as stated: after an accepted confirm a practice session has a new
\* Shot with the sticky lie and club, nothing else set and an empty Undo
\* Log; an on-course session has no Shot in progress and no text changes its
\* state until a start-on-course-shot request.
C15_AfterConfirmAnyText == []AfterConfirm(Tokens)

\* C15 amended: the same, for every text but the main-menu and end-session
\* buttons.
C15_AfterConfirmOtherTexts ==
    [](AfterConfirm(Tokens \ {MAIN_MENU, END_SESSION_BTN}))

\* An on-course Shot in Review, about to be confirmed.
C15_Witness ==
    /\ core.mode = "oncourse"
    /\ HasShot
    /\ InReview(core.current)
    /\ any_text(core, CONFIRM).ev = "confirm"

\* Shot b is Shot a with possibly more fields set.
Extends(a, b) ==
    /\ a.timestamp = b.timestamp /\ a.mode = b.mode
    /\ a.session_id = b.session_id /\ a.hole = b.hole
    /\ \A f \in AskedFields : a[f] # None => b[f] = a[f]

\* The Undo Log holds earlier states of the in-progress Shot only.
LogOfCurrent(c) ==
    /\ c.current = NoShot => c.stack = <<>>
    /\ c.stack # <<>> =>
          /\ \A f \in AskedFields \ Preset : c.stack[1][f] = None
          /\ \A i \in 1..(Len(c.stack) - 1) : Extends(c.stack[i], c.stack[i + 1])
          /\ Extends(c.stack[Len(c.stack)], c.current)

\* The texts that discard a Shot or the whole session.
DiscardTokens ==
    {CANCEL, CONFIRM, MAIN_MENU, END_SESSION_BTN, "practice", "on course"}

\* After a discarding operation the log is empty and a back restores nothing.
LogDiscarded(r) ==
    r.ev \in {"cancel", "confirm", "menu", "end", "mode", "shot"} =>
        /\ r.core.stack = <<>>
        /\ any_text(r.core, BACK).ev # "undo"

\* The log in one state, and after each operation that discards a Shot.
LogDiesWithShot ==
    /\ LogOfCurrent(core)
    /\ \A text \in DiscardTokens : LogDiscarded(any_text(core, text))
    /\ LogDiscarded(cmd_end_session(core))
    /\ LogDiscarded(cmd_shot(core))
    /\ core.mode \in {"practice", "oncourse"} =>
          start_new_shot(core).stack = <<>>

\* C16: with no Shot in progress the Undo Log is empty, its entries are
\* earlier states of the Shot in progress, and cancel, confirm, main menu,
\* end-session, mode selection and the start of a new Shot each leave it
\* empty, so that a back then restores nothing.
C16_UndoLogDiesWithShot == []LogDiesWithShot

\* An on-course session between Shots: one confirmed, none in progress.
C16_Witness ==
    /\ core.mode = "oncourse"
    /\ Len(core.shots) = 1
    /\ ~HasShot
    /\ any_text(core, BACK).ev # "undo"

\* The hole a Shot created in state c carries.
HoleAtCreation(c) == IF c.mode = "oncourse" THEN c.round.hole ELSE NoHole

\* The hole of a Shot agrees with its mode.
HoleFitsMode(s) ==
    IF s.mode = "oncourse" THEN s.hole \in 1..core.round.hole
    ELSE s.hole = NoHole

\* The holes in one state, and after each input to the Shot in progress.
HoleIsFixed ==
    /\ HasShot => HoleFitsMode(core.current)
    /\ \A i \in 1..Len(core.shots) : HoleFitsMode(core.shots[i])
    /\ core.mode \in {"practice", "oncourse"} =>
          start_new_shot(core).current.hole = HoleAtCreation(core)
    /\ core.mode = "oncourse" =>
          /\ cmd_shot(core).core.current.hole = core.round.hole
          /\ cmd_next_hole(core).core =
                 [core EXCEPT !.round.hole = core.round.hole + 1]
    /\ HasShot =>
          \A text \in Tokens :
              LET r == any_text(core, text)
              IN /\ r.ev \in {"set", "undo", "reject", "noundo", "silent"} =>
                       r.core.current.hole = core.current.hole
                 /\ r.ev = "confirm" =>
                       /\ Len(r.core.shots) = Len(core.shots) + 1
                       /\ r.core.shots[Len(r.core.shots)].hole = core.current.hole
                       /\ r.core.current # NoShot =>
                             r.core.current.hole = HoleAtCreation(core)

\* C17: a Shot gets the hole counter's value at creation (none in practice
\* mode); field inputs, back and confirmation keep it; advancing the hole
\* adds exactly 1 to the counter and changes nothing else.
C17_HoleFixedAtCreation == []HoleIsFixed

\* An on-course Shot begun on hole 1 is in progress, with a field set and
\* the log non-empty, after the counter moved on to hole 2.
C17_Witness ==
    /\ core.mode = "oncourse"
    /\ HasShot
    /\ core.stack # <<>>
    /\ core.current.hole = 1
    /\ core.round.hole = 2

\* Shot s was made under the identifier and mode the session has now.
OfThisSession(s) ==
    /\ s.session_id = core.session_id
    /\ s.mode = core.mode

\* C18: the Shot in progress and every confirmed Shot carry the session's
\* current identifier and mode, and a mode selection, a main-menu reset and
\* an end-session leave no confirmed Shot behind.
C18_ShotsOfCurrentSession ==
    /\ HasShot => OfThisSession(core.current)
    /\ \A i \in 1..Len(core.shots) : OfThisSession(core.shots[i])
    /\ \A r \in {any_text(core, text) :
                   text \in {"practice", "on course", MAIN_MENU, END_SESSION_BTN}}
              \cup {cmd_end_session(core)} :
          r.ev \in {"mode", "menu", "end"} =>
              /\ r.core.shots = <<>>
              /\ r.core.current # NoShot =>
                    r.core.current.session_id = r.core.session_id

\* A Shot confirmed and another in progress under an identifier that was
\* handed out again after an earlier one was dropped.
C18_Witness ==
    /\ Len(core.shots) = 1
    /\ HasShot
    /\ core.session_id = 1
    /\ core.shots[1].session_id = 1

\* The effect of one handler result r on the confirmed list.
ListStep(r) ==
    IF r.ev \in {"mode", "menu", "end"} THEN r.core.shots = <<>>
    ELSE IF r.ev = "confirm"
    THEN r.core.shots =
             Append(core.shots,
                    IF HasShot THEN core.current
                    ELSE start_new_shot(core).current)
    ELSE r.core.shots = core.shots

\* The confirmed list after each text and each command.
ListOnlyAppended ==
    /\ \A text \in Tokens : ListStep(any_text(core, text))
    /\ cmd_help(core).core.shots = core.shots
    /\ cmd_start(core).core.shots = core.shots
    /\ cmd_shot(core).core.shots = core.shots
    /\ cmd_next_hole(core).core.shots = core.shots
    /\ cmd_stats(core).core.shots = core.shots
    /\ cmd_end_session(core).core.shots = <<>>

\* C19: apart from the resets (mode selection, main menu, end-session),
\* which empty it, the confirmed list changes only by a confirm putting one
\* Shot at its end; every other text and command leaves it as it is.
C19_ConfirmedListAppendOnly == []ListOnlyAppended

\* A Shot in progress that differs from the one already confirmed.
C19_Witness ==
    /\ Len(core.shots) = 1
    /\ HasShot
    /\ core.stack # <<>>
    /\ core.current # core.shots[1]
    /\ any_text(core, CONFIRM).ev = "confirm"

\* C20: outside on-course mode the start-on-course-shot and advance-hole
\* commands leave the whole session as it was and answer with one plain
\* message.
C20_IllegalModeChangesNothing ==
    core.mode # "oncourse" =>
        \A r \in {cmd_shot(core), cmd_next_hole(core)} :
            /\ r.core = core
            /\ Len(r.out) = 1
            /\ r.out[1].markup = NoMarkup

\* A practice session with a Shot in progress, a field set and a Shot
\* confirmed.
C20_Witness ==
    /\ core.mode = "practice"
    /\ HasShot
    /\ core.stack # <<>>
    /\ Len(core.shots) = 1
    /\ cmd_shot(core).ev = "refused"
    /\ cmd_next_hole(core).ev = "refused"

\* The fields start_new_shot sets on a Shot of the mode of s.
SetAtCreation(s) == IF s.mode = "practice" THEN Preset ELSE {}

\* The fields set on s that its creation did not set.
SetSinceCreation(s) == {f \in AskedFields \ SetAtCreation(s) : s[f] # None}

\* The Undo Log is as long as the Shot in progress has fields set since its
\* creation, which is the accepted mutations minus the successful backs.
LogLengthIsFieldsSet ==
    /\ Len(core.stack) = Cardinality(SetSinceCreation(core.current))
    /\ counting => Len(core.stack) = core.hist.muts - core.hist.backs

\* C22 as stated: with a Shot in progress the Undo Log is as long as the
\* number of fields set since the Shot's creation, and its i-th snapshot has
\* exactly i such fields set.
C22_SnapshotHasIFields ==
    HasShot =>
        /\ LogLengthIsFieldsSet
        /\ \A i \in 1..Len(core.stack) :
              Cardinality(SetSinceCreation(core.stack[i])) = i

\* C22 amended: the same length, and the i-th snapshot, counted from 1, has
\* exactly i - 1 such fields set.
C22_SnapshotHasIMinusOneFields ==
    HasShot =>
        /\ LogLengthIsFieldsSet
        /\ \A i \in 1..Len(core.stack) :
              Cardinality(SetSinceCreation(core.stack[i])) = i - 1

\* A practice Shot with two snapshots in its log after a back was taken.
C22_Witness ==
    /\ HasShot
    /\ core.mode = "practice"
    /\ Len(core.stack) = 2
    /\ core.hist.backs >= 1

\* The holes of the Shots of c: within the counter, in list order, the Shot
\* in progress last; none on a practice Shot.
HolesInOrder(c) ==
    LET all == IF c.current = NoShot THEN c.shots
               ELSE Append(c.shots, c.current)
    IN /\ c.round.hole >= 1
       /\ \A i \in 1..Len(all) :
             IF all[i].mode = "oncourse"
             THEN all[i].hole \in 1..c.round.hole
             ELSE all[i].hole = NoHole
       /\ \A i \in 1..(Len(all) - 1) :
             all[i].mode = "oncourse" => all[i].hole <= all[i + 1].hole

\* The sessions a reset (mode selection, main menu, end-session) leads to.
AfterReset ==
    {Norm(any_text(core, text).core) :
        text \in {"practice", "on course", MAIN_MENU, END_SESSION_BTN}}

\* One step of the hole counter: kept, advanced by 1 by the advance-hole
\* command, or back at 1 after a reset.
HoleStep ==
    /\ core.mode = "oncourse" =>
          \/ core'.round.hole = core.round.hole
          \/ /\ core'.round.hole = core.round.hole + 1
             /\ core' = Norm(cmd_next_hole(core).core)
          \/ /\ core'.round.hole = 1
             /\ core' \in AfterReset
    /\ (core.mode # "oncourse" /\ core'.mode = "oncourse") =>
          core'.round.hole = 1

\* C23: the hole counter is at least 1 and in on-course mode moves only by
\* +1 (advance-hole) or back to 1 (reset); an on-course Shot has a hole from
\* 1 to the counter, the holes of the confirmed list do not decrease along
\* the list (nor after the next confirm), and a practice Shot has none.
C23_HoleCounterAndOrder ==
    /\ [](/\ HolesInOrder(core)
          /\ LET r == any_text(core, CONFIRM)
             IN r.ev = "confirm" => HolesInOrder(r.core))
    /\ [][HoleStep]_vars

\* A Shot of hole 1 is confirmed and a Shot of hole 2 is about to be.
C23_Witness ==
    /\ core.mode = "oncourse"
    /\ Len(core.shots) = 1
    /\ HasShot
    /\ core.shots[1].hole = 1
    /\ core.current.hole = 2
    /\ any_text(core, CONFIRM).ev = "confirm"

\* ------------------------------------------------------ statistics claims
Categories == {"res", "con", "plan", "lag"}

KeysOf(cat) ==
    CASE cat = "res" -> result_keys
      [] cat = "con" -> contact_keys
      [] cat = "plan" -> plan_keys
      [] cat = "lag" -> lag_keys

\* The columns before the first column of a category in a statistics row.
ColumnsBefore(cat) ==
    CASE cat = "res" -> 2
      [] cat = "con" -> 2 + Len(result_keys)
      [] cat = "plan" -> 2 + Len(result_keys) + Len(contact_keys)
      [] cat = "lag" ->
             2 + Len(result_keys) + Len(contact_keys) + Len(plan_keys)

\* The percentage a statistics row gives for the i-th key of a category.
PctIn(row, cat, i) == row[ColumnsBefore(cat) + i]

\* The fields of a Shot that the Spec counts in a category.
FieldsOf(s, cat) ==
    IF s.shot_type = "putt"
    THEN CASE cat = "res" -> {"putt_result"}
           [] cat = "con" -> {"putt_contact"}
           [] cat = "plan" -> {"putt_plan_1", "putt_plan_2"}
           [] cat = "lag" -> {"lag_reading"}
    ELSE CASE cat = "res" -> {"result"}
           [] cat = "con" -> {"contact"}
           [] cat = "plan" -> {"plan"}
           [] cat = "lag" -> {}

\* The observations a Shot contributes to a category.
Contributed(s, cat) == {f \in FieldsOf(s, cat) : s[f] # None}

RECURSIVE SumTo(_, _)
SumTo(f, n) == IF n = 0 THEN 0 ELSE SumTo(f, n - 1) + f[n]

\* The sum of the per-key counts of a category over the Shots lst.
CountSum(lst, cat) ==
    LET keys == KeysOf(cat)
    IN SumTo([i \in 1..Len(keys) |-> Counter(collect(lst)[cat], keys[i])],
             Len(keys))

\* The sum of the per-key percentages of a category in a row, in tenths.
PctSum(row, cat) ==
    SumTo([i \in 1..Len(KeysOf(cat)) |-> PctIn(row, cat, i)], Len(KeysOf(cat)))

Abs(x) == IF x < 0 THEN 0 - x ELSE x

\* 100.0 up to rounding: each key that occurs is off by at most 0.05.
HundredUpToRounding(row, cat) ==
    LET used == {i \in 1..Len(KeysOf(cat)) : PctIn(row, cat, i) # 0}
    IN 2 * Abs(PctSum(row, cat) - 1000) <= Cardinality(used)

\* The rows of the statistics of the session's confirmed Shots, header aside.
StatRows ==
    LET rows == compute_stats_by_club(core.shots)
    IN [i \in 1..(Len(rows) - 1) |-> rows[i + 1]]

\* C21: in a club group of N Shots that each contribute exactly one
\* observation to a category, the category's counts sum to N and its
\* percentages to 100.0 up to rounding; in a group of one Shot the chosen key
\* has 100.0 and every other key of the category 0.0.
C21_PercentagesSumToHundred ==
    \A r \in 1..Len(StatRows) :
        LET row == StatRows[r]
            lst == by_club(core.shots, row[1])
            N == row[2]
        IN /\ N = Len(lst)
           /\ N >= 1
           /\ \A cat \in Categories :
                 (\A j \in 1..N : Cardinality(Contributed(lst[j], cat)) = 1) =>
                     /\ CountSum(lst, cat) = N
                     /\ HundredUpToRounding(row, cat)
                     /\ N = 1 =>
                           LET f == CHOOSE g \in Contributed(lst[1], cat) : TRUE
                           IN \A i \in 1..Len(KeysOf(cat)) :
                                 PctIn(row, cat, i) =
                                     IF KeysOf(cat)[i] = lst[1][f]
                                     THEN 1000 ELSE 0

\* A club with three Shots of three different results: 33.3 each, 99.9 in
\* all, beside a club with one Shot.
C21_Witness ==
    /\ Len(core.shots) = 3
    /\ \E r \in 1..Len(StatRows) :
          /\ StatRows[r][2] = 3
          /\ PctSum(StatRows[r], "res") = 999
          /\ PctSum(StatRows[r], "con") = 999

\* The putts among the Shots lst.
Putts(lst) == {j \in 1..Len(lst) : lst[j].shot_type = "putt"}

\* C24: in every club group of N Shots the counts of the result, contact
\* and lag categories each sum to at most N and none of their percentages
\* exceeds 100.0; the plan counts sum to at most N plus the putts of the
\* group, and one plan key counts at most 2N.
C24_CountsBounded ==
    \A r \in 1..Len(StatRows) :
        LET row == StatRows[r]
            lst == by_club(core.shots, row[1])
            N == row[2]
        IN /\ \A cat \in {"res", "con", "lag"} :
                 /\ CountSum(lst, cat) <= N
                 /\ \A i \in 1..Len(KeysOf(cat)) : PctIn(row, cat, i) <= 1000
           /\ CountSum(lst, "plan") <= N + Cardinality(Putts(lst))
           /\ \A i \in 1..Len(plan_keys) :
                 /\ Counter(collect(lst).plan, plan_keys[i]) <= 2 * N
                 /\ PctIn(row, "plan", i) <= 2000

\* A club of two putts whose four plan readings are the same key: the key
\* counts 2N and stands at 200.0.
C24_Witness ==
    \E r \in 1..Len(StatRows) :
        LET lst == by_club(core.shots, StatRows[r][1])
        IN /\ StatRows[r][2] = 2
           /\ Cardinality(Putts(lst)) = 2
           /\ \E i \in 1..Len(plan_keys) :
                 /\ Counter(collect(lst).plan, plan_keys[i]) = 4
                 /\ PctIn(StatRows[r], "plan", i) = 2000

====
